---- MODULE Spec2Model ----
(***************************************************************************)
(* A model of rixmape/scrape-rappler (src/main.py): the sitemap crawl      *)
(* (SitemapScraper), the per-article extraction (RapplerScraper), the      *)
(* storage of a record (ArticleData.save, Firestore) and the fan-out of    *)
(* the script body (sequential loop or multiprocessing pool).              *)
(*                                                                         *)
(* and of src/article_url_scraper.py, the asynchronous sitemap crawler.    *)
(*                                                                         *)
(* The specifications share the variables:                                 *)
(*   Spec         the script body from line 490 on: tasks, storage         *)
(*   SpecFair     Spec with its steps taken as long as one is possible     *)
(*   SpecSave     ArticleData objects built with any fields, then saved    *)
(*   SpecSitemap  SitemapScraper.scrape_sitemap                            *)
(*   SpecCrawler  main() of article_url_scraper.py                         *)
(* The variables of the others keep their initial value in each.           *)
(***************************************************************************)
EXTENDS Integers, Sequences, FiniteSets, TLC

VARIABLES
    args,           \* the parsed arguments used by the tasks
    article_urls,   \* the list of URLs of the run (main.py:477-482)
    main_pc,        \* the script body: "running", "done", "crashed"
    taskqueue,      \* chunks of indices of article_urls not yet taken
    worker,         \* per process: the task it runs (see IdleWorker)
    status,         \* per index of article_urls: how far its task got
    complete,       \* directory output_dir/complete: set of <<name, content>>
    incomplete,     \* directory output_dir/incomplete
    firestore,      \* the remote collection: set of <<doc id, content>>
    sv_pc,          \* SpecSave: "new", "built", "saved"
    sv_data,        \* SpecSave: the ArticleData object
    sv_filename,    \* SpecSave: what save returned, <<directory, name>>
    sv_count,       \* SpecSave: number of objects built so far
    sm_pc,          \* SpecSitemap: position in scrape_sitemap
    max_url,        \* SpecSitemap: the argument max_url
    post_sitemaps,  \* SpecSitemap: the list _get_post_sitemaps returned
    sm_pages,       \* SpecSitemap: what each visited post-sitemap returned
    sm_article_urls,\* SpecSitemap: the local article_urls of scrape_sitemap
    sm_driver,      \* SpecSitemap: the crawler's browser session
    cr_pc,          \* SpecCrawler: main() of article_url_scraper.py
    cr_sitemaps,    \* SpecCrawler: the list get_sitemaps returned
    cr_task,        \* SpecCrawler: per post-sitemap, its scrape_article_urls task
    cr_files        \* SpecCrawler: directory article_urls: set of <<name, content>>

vars == <<args, article_urls, main_pc, taskqueue, worker, status,
          complete, incomplete, firestore,
          sv_pc, sv_data, sv_filename, sv_count,
          sm_pc, max_url, post_sitemaps, sm_pages, sm_article_urls, sm_driver,
          cr_pc, cr_sitemaps, cr_task, cr_files>>

schedVars == <<args, article_urls, main_pc, taskqueue, worker, status>>
storeVars == <<complete, incomplete, firestore>>
saveVars == <<sv_pc, sv_data, sv_filename, sv_count>>
sitemapVars == <<sm_pc, max_url, post_sitemaps, sm_pages, sm_article_urls, sm_driver>>
crawlVars == <<cr_pc, cr_sitemaps, cr_task, cr_files>>

----------------------------------------------------------------------------
(* Bounds of the model *)

\* longest list of article URLs of a run
MaxUrls == 2

\* number of ArticleData objects built and saved in SpecSave
MaxSaves == 2

\* most sitemap links on the main sitemap page
MaxSitemaps == 2

\* most links on one post-sitemap page
MaxEntries == 3

\* largest max_url tried
MaxN == 4

----------------------------------------------------------------------------
(* Values *)

\* Python's None
None == <<"None">>

\* a Python str
Str(s) == <<"str", s>>

\* a Python int
PyInt(n) == <<"int", n>>

\* a Python dict, as the set of its <<key, value>> items
Dict(items) == <<"dict", items>>

\* SitemapScraper.BASE_URL
BASE_URL == "https://www.rappler.com"

\* a URL, as the site it starts with and the rest of it
Url(base, rest) == <<base, rest>>

\* the article URLs of the runs
Urls == {Url(BASE_URL, "/a"), Url(BASE_URL, "/b")}

\* hashlib.sha256(url.encode()).hexdigest(): a digest of the URL, one per URL
sha256(url) == <<"sha256", url>>

\* the file name f"{url_hash}.json"
JsonName(url_hash) == <<url_hash, ".json">>

\* the mood_count payloads a vote API response can carry (keys as the site
\* sends them)
MoodCounts == { {}, {<<"Happy", 3>>, <<"Sad", 1>>} }

\* str.lower on the mood labels the model uses
lower(k) ==
    CASE k = "Happy" -> "happy"
      [] k = "Sad" -> "sad"
      [] OTHER -> k

\* the values a text field of a page can have
TitleValues == {None, Str("title")}
DatetimeValues == {None, Str("datetime")}
ContentValues == {None, Str("content")}
MoodsValues == {None} \cup { Dict({<<lower(kv[1]), kv[2]>> : kv \in m}) : m \in MoodCounts }

----------------------------------------------------------------------------
(* ArticleData *)

\* ArticleData.__init__
ArticleData(url, title, datetime, content, moods) ==
    [url |-> url, url_hash |-> sha256(url), title |-> title,
     datetime |-> datetime, content |-> content, moods |-> moods]

\* a mutant of is_complete: the moods field is not looked at
is_complete_no_moods(data) ==
    /\ data.url # None
    /\ data.url_hash # None
    /\ data.title # None
    /\ data.datetime # None
    /\ data.content # None

\* ArticleData.is_complete: all(value is not None for value in vars(self).values())
is_complete(data) ==
    \A f \in DOMAIN data : data[f] # None

\* ArticleData.to_json / to_dict: the content written is the object's fields
to_json(data) == data

\* open(filename, "w").write(text): the file of that name is replaced
WriteFile(dir, name, text) ==
    {f \in dir : f[1] # name} \cup {<<name, text>>}

\* os.path.exists(os.path.join(directory, name))
Exists(dir, name) == \E f \in dir : f[1] = name

\* the directory ArticleData.save picks
SaveDirectory(data) == IF is_complete(data) THEN "complete" ELSE "incomplete"

\* hashlib.md5(...).hexdigest(), the digest article_url_scraper.py names its
\* files with
md5(text) == <<"md5", text>>

\* ArticleData.save, mutated: the file is named by another digest of the URL
\* than the one __init__ stored in url_hash
save_other_digest(data) ==
    LET directory == SaveDirectory(data)
        name == JsonName(md5(data.url))
    IN  /\ complete' = IF directory = "complete"
                       THEN WriteFile(complete, name, to_json(data))
                       ELSE complete
        /\ incomplete' = IF directory = "incomplete"
                         THEN WriteFile(incomplete, name, to_json(data))
                         ELSE incomplete

\* ArticleData.save: the hash is computed again from the URL, the directory
\* is picked by is_complete, the file is (over)written; returns the filename
save(data) ==
    LET url_hash == sha256(data.url)
        directory == SaveDirectory(data)
        name == JsonName(url_hash)
    IN  /\ complete' = IF directory = "complete"
                       THEN WriteFile(complete, name, to_json(data))
                       ELSE complete
        /\ incomplete' = IF directory = "incomplete"
                         THEN WriteFile(incomplete, name, to_json(data))
                         ELSE incomplete

\* the value save returns
SaveFilename(data) == <<SaveDirectory(data), JsonName(sha256(data.url))>>

----------------------------------------------------------------------------
(* The browser and the page, as the task sees them *)

\* mp.cpu_count(): the width of the pool
cpu_count == 2

\* WebDriverWait(...).until(presence_of_element_located): the element is
\* found, the wait times out, or the driver fails
WaitOutcomes == {"found", "TimeoutException", "WebDriverException"}

\* driver.get(url): the page loads or the driver raises
GetOutcomes == {"loaded", "WebDriverException"}

\* the stages of one extraction, in the order of the code
Stages == {"title", "datetime", "content", "see_moods", "vote_div",
           "happy_div", "requests"}

NoOutcomes == [s \in Stages |-> "not_attempted"]

\* a process with no task yet. Of a task: pc is its position, chunk the
\* indices still to run after it, idx its index in article_urls,
\* article_data and driver the scraper's fields; the rest records what
\* happened: path the branch scrape_and_save took, outcome what each stage
\* met, saved where the record went, local_at_call whether a file of the
\* URL's hash was in either directory when the scraper was created
IdleWorker ==
    [pc |-> "idle", chunk |-> <<>>, idx |-> 0, article_data |-> None,
     driver |-> "none", path |-> "none", outcome |-> NoOutcomes,
     saved |-> "none", local_at_call |-> FALSE]

Workers == 1..cpu_count

\* the processes that run tasks: the pool's, or the main process alone
ActiveWorkers == IF args.use_multiprocessing THEN Workers ELSE {1}

----------------------------------------------------------------------------
(* RapplerScraper *)

\* RapplerScraper._is_article_in_local, mutated: only "complete" is probed
is_article_in_local_complete_only(url_hash) ==
    Exists(complete, JsonName(url_hash))

\* RapplerScraper._is_article_in_local
is_article_in_local(url_hash) ==
    \/ Exists(complete, JsonName(url_hash))
    \/ Exists(incomplete, JsonName(url_hash))

\* RapplerScraper._is_article_in_firestore: where url_hash == ..., limit 1
is_article_in_firestore(url_hash) ==
    \E doc \in firestore : doc[2].url_hash = url_hash

\* RapplerScraper._add_to_firestore, mutated: the record is added whether
\* complete or not
add_to_firestore_always(data) ==
    firestore' = firestore \cup {<<Cardinality(firestore) + 1, data>>}

\* RapplerScraper._add_to_firestore: a new document with a fresh id, for a
\* complete record only
add_to_firestore(data) ==
    firestore' = IF is_complete(data)
                 THEN firestore \cup {<<Cardinality(firestore) + 1, data>>}
                 ELSE firestore

\* the try block of scrape_and_save, mutated: a timeout is swallowed at the
\* stage and the next stage runs
TryNextPerField(outcome, next) ==
    IF outcome \in {"found", "TimeoutException"} THEN next ELSE "finally"

\* the try block of scrape_and_save (366-379): a stage that returns is
\* followed by the next one; any exception leaves the block for the except
\* clauses, which only log, and then the finally clause
TryNext(outcome, next) ==
    IF outcome = "found" THEN next ELSE "finally"

\* the try/except of _fetch_moods, mutated: every driver error is taken for
\* a missing see-moods element
AfterSeeMoodsBroad(outcome) ==
    IF outcome = "found" THEN "fetch_mood_data" ELSE "vote_div"

\* the try/except TimeoutException of _fetch_moods (317-327): where the
\* wait for the see-moods element leads
AfterSeeMoods(outcome) ==
    CASE outcome = "found" -> "fetch_mood_data"
      [] outcome = "TimeoutException" -> "vote_div"
      [] OTHER -> "finally"

\* worker w's task becomes t
SetTask(w, t) == worker' = [worker EXCEPT ![w] = t]

\* scraping_wrapper up to the call of scrape_and_save: the next URL of the
\* worker's chunk gets a RapplerScraper, whose constructor opens a browser
\* session and creates the ArticleData of the URL
scraping_wrapper(w) ==
    /\ main_pc = "running"
    /\ w \in ActiveWorkers
    /\ worker[w].pc \in {"idle", "returned", "raised"}
    /\ worker[w].chunk # <<>>
    /\ LET i == Head(worker[w].chunk)
           data == ArticleData(article_urls[i], None, None, None, None)
       IN  /\ SetTask(w, [pc |-> "check_firestore",
                          chunk |-> Tail(worker[w].chunk),
                          idx |-> i,
                          article_data |-> data,
                          driver |-> "open",
                          path |-> "none",
                          outcome |-> NoOutcomes,
                          saved |-> "none",
                          local_at_call |->
                              \/ Exists(complete, JsonName(data.url_hash))
                              \/ Exists(incomplete, JsonName(data.url_hash))])
           /\ status' = [status EXCEPT ![i] = "started"]
    /\ UNCHANGED <<args, article_urls, main_pc, taskqueue>>
    /\ UNCHANGED <<storeVars, saveVars, sitemapVars, crawlVars>>

\* scrape_and_save returns to scraping_wrapper
Return(w, t) ==
    /\ SetTask(w, [t EXCEPT !.pc = "returned"])
    /\ status' = [status EXCEPT ![t.idx] = "returned"]
    /\ UNCHANGED <<args, article_urls, main_pc, taskqueue>>

\* a step of scrape_and_save that stays inside it
Continue(w, t) ==
    /\ SetTask(w, t)
    /\ UNCHANGED <<args, article_urls, main_pc, taskqueue, status>>

\* scrape_and_save, lines 345-354: the remote check
CheckFirestore(w) ==
    /\ worker[w].pc = "check_firestore"
    /\ IF /\ ~args.ignore_cache
          /\ args.save_to_firestore
          /\ is_article_in_firestore(worker[w].article_data.url_hash)
       THEN Return(w, [worker[w] EXCEPT !.path = "skip_firestore"])
       ELSE Continue(w, [worker[w] EXCEPT !.pc = "check_local"])
    /\ UNCHANGED <<storeVars, saveVars, sitemapVars, crawlVars>>

\* scrape_and_save, lines 356-361: the local check
CheckLocal(w) ==
    /\ worker[w].pc = "check_local"
    /\ IF /\ ~args.ignore_cache
          /\ is_article_in_local(worker[w].article_data.url_hash)
       THEN Return(w, [worker[w] EXCEPT !.path = "skip_local"])
       ELSE Continue(w, [worker[w] EXCEPT !.pc = "navigate", !.path = "scrape"])
    /\ UNCHANGED <<storeVars, saveVars, sitemapVars, crawlVars>>

\* scrape_and_save, line 364: navigate_to_url, outside the try block; an
\* exception of driver.get leaves scrape_and_save and scraping_wrapper: the
\* rest of the worker's chunk is not run, and in the sequential loop the
\* script ends
navigate_to_url(w) ==
    /\ worker[w].pc = "navigate"
    /\ \E o \in GetOutcomes :
         IF o = "loaded"
         THEN Continue(w, [worker[w] EXCEPT !.pc = "fetch_title"])
         ELSE /\ SetTask(w, [worker[w] EXCEPT !.pc = "raised", !.chunk = <<>>])
              /\ status' = [status EXCEPT ![worker[w].idx] = "raised"]
              /\ main_pc' = IF args.use_multiprocessing THEN main_pc ELSE "crashed"
              /\ UNCHANGED <<args, article_urls, taskqueue>>
    /\ UNCHANGED <<storeVars, saveVars, sitemapVars, crawlVars>>

\* a _fetch_ method, mutated: a failed wait resets the record to the URL
FetchFieldClearing(w, stage, value, next) ==
    \E o \in WaitOutcomes :
        Continue(w, [worker[w] EXCEPT
            !.article_data = IF o = "found"
                             THEN [@ EXCEPT ![stage] = value]
                             ELSE ArticleData(@.url, None, None, None, None),
            !.outcome[stage] = o,
            !.pc = TryNext(o, next)])

\* one of _fetch_title, _fetch_datetime, _fetch_content: the field is
\* assigned the element's text when the wait returns
FetchField(w, stage, value, next) ==
    \E o \in WaitOutcomes :
        Continue(w, [worker[w] EXCEPT
            !.article_data[stage] = IF o = "found" THEN value ELSE @,
            !.outcome[stage] = o,
            !.pc = TryNext(o, next)])

fetch_title(w) ==
    /\ worker[w].pc = "fetch_title"
    /\ FetchField(w, "title", Str("title"), "fetch_datetime")
    /\ UNCHANGED <<storeVars, saveVars, sitemapVars, crawlVars>>

fetch_datetime(w) ==
    /\ worker[w].pc = "fetch_datetime"
    /\ FetchField(w, "datetime", Str("datetime"), "fetch_content")
    /\ UNCHANGED <<storeVars, saveVars, sitemapVars, crawlVars>>

fetch_content(w) ==
    /\ worker[w].pc = "fetch_content"
    /\ FetchField(w, "content", Str("content"), "fetch_moods")
    /\ UNCHANGED <<storeVars, saveVars, sitemapVars, crawlVars>>

\* _fetch_moods, lines 317-326: the wait for the see-moods element
fetch_moods(w) ==
    /\ worker[w].pc = "fetch_moods"
    /\ \E o \in WaitOutcomes :
        Continue(w, [worker[w] EXCEPT
            !.outcome["see_moods"] = o,
            !.pc = AfterSeeMoods(o)])
    /\ UNCHANGED <<storeVars, saveVars, sitemapVars, crawlVars>>

\* _emulate_voting: click_element_via_js(VOTE_DIV_CSS); a timeout is logged
\* and raised again
emulate_voting_vote(w) ==
    /\ worker[w].pc = "vote_div"
    /\ \E o \in WaitOutcomes :
        Continue(w, [worker[w] EXCEPT
            !.outcome["vote_div"] = o,
            !.pc = TryNext(o, "happy_div")])
    /\ UNCHANGED <<storeVars, saveVars, sitemapVars, crawlVars>>

\* _emulate_voting: click_element_via_js(HAPPY_DIV_CSS)
emulate_voting_happy(w) ==
    /\ worker[w].pc = "happy_div"
    /\ \E o \in WaitOutcomes :
        Continue(w, [worker[w] EXCEPT
            !.outcome["happy_div"] = o,
            !.pc = TryNext(o, "fetch_mood_data")])
    /\ UNCHANGED <<storeVars, saveVars, sitemapVars, crawlVars>>

\* what _fetch_mood_data_from_requests returns for a vote API response
\* carrying mood_count: the keys lowered
MoodData(mood_count) == Dict({<<lower(kv[1]), kv[2]>> : kv \in mood_count})

\* _fetch_mood_data_from_requests and lines 329-332: no request to the vote
\* API has a response (None), or the first one is decoded, or decoding it
\* raises (json.loads, a missing key); moods is assigned what was returned
fetch_mood_data_from_requests(w) ==
    /\ worker[w].pc = "fetch_mood_data"
    /\ \/ Continue(w, [worker[w] EXCEPT
              !.article_data.moods = None,
              !.outcome["requests"] = "no_response",
              !.pc = "finally"])
       \/ \E m \in MoodCounts :
            Continue(w, [worker[w] EXCEPT
              !.article_data.moods = MoodData(m),
              !.outcome["requests"] = "found",
              !.pc = "finally"])
       \/ Continue(w, [worker[w] EXCEPT
              !.outcome["requests"] = "Exception",
              !.pc = "finally"])
    /\ UNCHANGED <<storeVars, saveVars, sitemapVars, crawlVars>>

\* scrape_and_save, lines 379-385, the finally clause: the session is quit,
\* then the record goes to Firestore or to a local file
finally(w) ==
    /\ worker[w].pc = "finally"
    /\ LET data == worker[w].article_data
       IN  IF args.save_to_firestore
           THEN /\ add_to_firestore(data)
                /\ UNCHANGED <<complete, incomplete>>
                /\ Return(w, [worker[w] EXCEPT
                       !.driver = "quit",
                       !.saved = IF is_complete(data) THEN "firestore"
                                 ELSE "not_saved_incomplete"])
           ELSE /\ save(data)
                /\ UNCHANGED firestore
                /\ Return(w, [worker[w] EXCEPT
                       !.driver = "quit", !.saved = "local"])
    /\ UNCHANGED <<saveVars, sitemapVars, crawlVars>>

----------------------------------------------------------------------------
(* The script body, lines 490-499 *)

\* the chunk size of pool.map (multiprocessing.Pool._map_async with
\* chunksize=None): ceil(n / (4 * processes)); the sequential loop is one
\* chunk, the whole list
Chunksize(n, multiprocessing) ==
    IF multiprocessing
    THEN (n + 4 * cpu_count - 1) \div (4 * cpu_count)
    ELSE n

\* the indices 1..n cut into chunks of the given size, in order
Chunks(n, size) ==
    IF n = 0 THEN <<>>
    ELSE [k \in 1..((n + size - 1) \div size) |->
            [j \in 1..(IF k * size <= n THEN size ELSE n - (k - 1) * size)
                |-> (k - 1) * size + j]]

\* a process of the pool (or the loop) takes the next chunk
GetTask(w) ==
    /\ main_pc = "running"
    /\ w \in ActiveWorkers
    /\ worker[w].pc \in {"idle", "returned", "raised"}
    /\ worker[w].chunk = <<>>
    /\ taskqueue # <<>>
    /\ worker' = [worker EXCEPT ![w].chunk = Head(taskqueue)]
    /\ taskqueue' = Tail(taskqueue)
    /\ UNCHANGED <<args, article_urls, main_pc, status>>
    /\ UNCHANGED <<storeVars, saveVars, sitemapVars, crawlVars>>

\* pool.map returns once every chunk is done, and raises the first exception
\* a task raised; the for loop ends after the last URL
Finish ==
    /\ main_pc = "running"
    /\ taskqueue = <<>>
    /\ \A w \in Workers :
        /\ worker[w].chunk = <<>>
        /\ worker[w].pc \in {"idle", "returned", "raised"}
    /\ main_pc' = IF \E i \in DOMAIN status : status[i] = "raised"
                  THEN "crashed" ELSE "done"
    /\ UNCHANGED <<args, article_urls, taskqueue, worker, status>>
    /\ UNCHANGED <<storeVars, saveVars, sitemapVars, crawlVars>>

\* the lists of article URLs a run can be given
UrlLists == UNION { [1..n -> Urls] : n \in 0..MaxUrls }

InitSave ==
    /\ sv_pc = "new"
    /\ sv_data = None
    /\ sv_filename = None
    /\ sv_count = 0

InitSitemap ==
    /\ sm_pc = "start"
    /\ max_url = None
    /\ post_sitemaps = <<>>
    /\ sm_pages = <<>>
    /\ sm_article_urls = <<>>
    /\ sm_driver = "open"

InitCrawl ==
    /\ cr_pc = "start"
    /\ cr_sitemaps = <<>>
    /\ cr_task = <<>>
    /\ cr_files = {}

InitStore ==
    /\ complete = {}
    /\ incomplete = {}
    /\ firestore = {}

InitSched(a, urls) ==
    /\ args = a
    /\ article_urls = urls
    /\ main_pc = "running"
    /\ taskqueue = Chunks(Len(urls), Chunksize(Len(urls), a.use_multiprocessing))
    /\ worker = [w \in Workers |-> IdleWorker]
    /\ status = [i \in 1..Len(urls) |-> "pending"]

Args == [ignore_cache : BOOLEAN, save_to_firestore : BOOLEAN,
         use_multiprocessing : BOOLEAN]

\* the state at line 490: arguments parsed, URLs known, output directory
\* and collection empty
Init ==
    /\ \E a \in Args, urls \in UrlLists : InitSched(a, urls)
    /\ InitStore
    /\ InitSave
    /\ InitSitemap
    /\ InitCrawl

Task(w) ==
    \/ scraping_wrapper(w)
    \/ CheckFirestore(w)
    \/ CheckLocal(w)
    \/ navigate_to_url(w)
    \/ fetch_title(w)
    \/ fetch_datetime(w)
    \/ fetch_content(w)
    \/ fetch_moods(w)
    \/ emulate_voting_vote(w)
    \/ emulate_voting_happy(w)
    \/ fetch_mood_data_from_requests(w)
    \/ finally(w)

Next ==
    \/ \E w \in Workers : GetTask(w)
    \/ \E w \in Workers : Task(w)
    \/ Finish

Spec == Init /\ [][Next]_vars

\* the run with its processes scheduled fairly: a step that can be taken is
\* taken in the end (the pool's workers and the loop do not stop by
\* themselves)
SpecFair == Spec /\ WF_vars(Next)

----------------------------------------------------------------------------
(* SpecSave: ArticleData objects with any fields, saved to one directory *)

\* ArticleData(url, title, datetime, content, moods), any argument given
NewArticleData ==
    /\ sv_pc \in {"new", "saved"}
    /\ sv_count < MaxSaves
    /\ \E url \in Urls, title \in TitleValues, datetime \in DatetimeValues,
          content \in ContentValues, moods \in MoodsValues :
         sv_data' = ArticleData(url, title, datetime, content, moods)
    /\ sv_pc' = "built"
    /\ sv_count' = sv_count + 1
    /\ UNCHANGED <<sv_filename, schedVars, storeVars, sitemapVars, crawlVars>>

\* article_data.save(output_dir)
SaveArticleData ==
    /\ sv_pc = "built"
    /\ save(sv_data)
    /\ sv_filename' = SaveFilename(sv_data)
    /\ sv_pc' = "saved"
    /\ UNCHANGED <<sv_data, sv_count, firestore, schedVars, sitemapVars, crawlVars>>

\* no run of the script body: only the directory is used
InitNoRun ==
    InitSched([ignore_cache |-> FALSE, save_to_firestore |-> FALSE,
               use_multiprocessing |-> FALSE], <<>>)

InitSaveSpec == InitNoRun /\ InitStore /\ InitSave /\ InitSitemap /\ InitCrawl

NextSave == NewArticleData \/ SaveArticleData

SpecSave == InitSaveSpec /\ [][NextSave]_vars

----------------------------------------------------------------------------
(* SpecSitemap: SitemapScraper.scrape_sitemap *)

\* the links a main sitemap page can show
SitemapLinks ==
    {Url(BASE_URL, "/post-sitemap.xml"), Url(BASE_URL, "/post-sitemap2.xml"),
     Url(BASE_URL, "/post-sitemap3.xml"), Url(BASE_URL, "/page-sitemap.xml")}

\* "post-sitemap" in url, on the links of the model
is_post_sitemap(url) ==
    url[2] \in {"/post-sitemap.xml", "/post-sitemap2.xml", "/post-sitemap3.xml"}

\* the links a post-sitemap page can show: four articles and one link that
\* leaves the site
ArticleLinks ==
    {Url(BASE_URL, "/a"), Url(BASE_URL, "/b"), Url(BASE_URL, "/c"),
     Url(BASE_URL, "/d"), Url("https://www.sitemaps.org", "/schemas")}

\* url.startswith(self.BASE_URL)
startswith_base(url) == url[1] = BASE_URL

\* the sequences over S of length at most n with no element twice: the
\* <a> tags of a page, in page order
PagesOver(S, n) ==
    {p \in UNION { [1..k -> S] : k \in 0..n } :
        \A i, j \in DOMAIN p : i # j => p[i] # p[j]}

\* BaseScraper.get_urls(condition): the hrefs that satisfy the condition
\* (given as the set of the URLs that do), in page order
get_urls(page, matching) == SelectSeq(page, LAMBDA url : url \in matching)

\* line 202, mutated: the comparison is strict
reached_max_strict(urls, n) == n # None /\ Len(urls) > n[2]

\* line 202: max_url is not None and len(article_urls) >= max_url
reached_max(urls, n) == n # None /\ Len(urls) >= n[2]

\* line 203, mutated: one URL too few is kept
slice_off_by_one(urls, n) ==
    SubSeq(urls, 1, IF n[2] - 1 < Len(urls) THEN n[2] - 1 ELSE Len(urls))

\* line 203: article_urls[:max_url], max_url >= 0
slice(urls, n) ==
    SubSeq(urls, 1, IF n[2] < Len(urls) THEN n[2] ELSE Len(urls))

\* lines 196-198: _get_post_sitemaps; driver.get may raise
get_post_sitemaps ==
    /\ sm_pc = "start"
    /\ \/ \E page \in PagesOver(SitemapLinks, MaxSitemaps) :
            /\ post_sitemaps' = get_urls(page, {url \in SitemapLinks : is_post_sitemap(url)})
            /\ sm_pc' = IF post_sitemaps' = <<>> THEN "after_loop" ELSE "loop"
       \/ /\ sm_pc' = "raised"
          /\ UNCHANGED post_sitemaps
    /\ UNCHANGED <<max_url, sm_pages, sm_article_urls, sm_driver>>
    /\ UNCHANGED <<schedVars, storeVars, saveVars, crawlVars>>

\* lines 199-204: one iteration of the loop over post_sitemaps, for the
\* sitemap after those already visited
get_article_urls ==
    /\ sm_pc = "loop"
    /\ \/ \E page \in PagesOver(ArticleLinks, MaxEntries) :
            LET new_urls == get_urls(page, {url \in ArticleLinks : startswith_base(url)})
                extended == sm_article_urls \o new_urls
                visited == Len(sm_pages) + 1
            IN  /\ sm_pages' = Append(sm_pages, new_urls)
                /\ IF reached_max(extended, max_url)
                   THEN /\ sm_article_urls' = slice(extended, max_url)
                        /\ sm_pc' = "after_loop"
                   ELSE /\ sm_article_urls' = extended
                        /\ sm_pc' = IF visited = Len(post_sitemaps)
                                    THEN "after_loop" ELSE "loop"
       \/ /\ sm_pc' = "raised"
          /\ UNCHANGED <<sm_pages, sm_article_urls>>
    /\ UNCHANGED <<max_url, post_sitemaps, sm_driver>>
    /\ UNCHANGED <<schedVars, storeVars, saveVars, crawlVars>>

\* lines 205-207: quit_driver, return article_urls
return_article_urls ==
    /\ sm_pc = "after_loop"
    /\ sm_driver' = "quit"
    /\ sm_pc' = "done"
    /\ UNCHANGED <<max_url, post_sitemaps, sm_pages, sm_article_urls>>
    /\ UNCHANGED <<schedVars, storeVars, saveVars, crawlVars>>

\* the values of --max-articles: not given, or a count
MaxUrlValues == {None} \cup {PyInt(n) : n \in 0..MaxN}

InitSitemapSpec ==
    /\ InitNoRun /\ InitStore /\ InitSave /\ InitCrawl
    /\ sm_pc = "start"
    /\ max_url \in MaxUrlValues
    /\ post_sitemaps = <<>>
    /\ sm_pages = <<>>
    /\ sm_article_urls = <<>>
    /\ sm_driver = "open"

NextSitemap == get_post_sitemaps \/ get_article_urls \/ return_article_urls

SpecSitemap == InitSitemapSpec /\ [][NextSitemap]_vars

----------------------------------------------------------------------------
(* SpecCrawler: main() of src/article_url_scraper.py *)

\* get_response: the text of the page, or None after any exception of the
\* request (logged); the text is given as the <loc> entries it holds
Responses(links, n) == {None} \cup {<<"text", p>> : p \in PagesOver(links, n)}

\* parse_sitemap: the tags of the response, [] when there is no response
parse_sitemap(response) ==
    IF response = None THEN <<>> ELSE response[2]

\* the file name f"{url_hash}.txt"
TxtName(url_hash) == <<url_hash, ".txt">>

\* main, lines 93-98: get_sitemaps keeps the <loc> texts that contain
\* "post-sitemap"; one scrape_article_urls coroutine per post-sitemap is
\* handed to asyncio.gather
get_sitemaps ==
    /\ cr_pc = "start"
    /\ \E response \in Responses(SitemapLinks, MaxSitemaps) :
         LET sitemap_tags == parse_sitemap(response)
             found == SelectSeq(sitemap_tags, LAMBDA url : is_post_sitemap(url))
         IN  /\ cr_sitemaps' = found
             /\ cr_task' = [i \in DOMAIN found |-> "pending"]
    /\ cr_pc' = "gather"
    /\ UNCHANGED cr_files
    /\ UNCHANGED <<schedVars, storeVars, saveVars, sitemapVars>>

\* scrape_article_urls and write_to_file, run when the response of
\* post-sitemap i arrives: the <loc> texts are written to a file named by
\* the md5 of the first of them; with no URL, urls[0] raises IndexError
scrape_article_urls(i) ==
    /\ cr_pc = "gather"
    /\ cr_task[i] = "pending"
    /\ \E response \in Responses(ArticleLinks, MaxEntries) :
         LET urls == parse_sitemap(response)
         IN  IF urls = <<>>
             THEN /\ cr_task' = [cr_task EXCEPT ![i] = "raised"]
                  /\ UNCHANGED cr_files
             ELSE /\ cr_files' = WriteFile(cr_files, TxtName(md5(urls[1])), urls)
                  /\ cr_task' = [cr_task EXCEPT ![i] = "done"]
    /\ UNCHANGED <<cr_pc, cr_sitemaps>>
    /\ UNCHANGED <<schedVars, storeVars, saveVars, sitemapVars>>

\* line 99, await asyncio.gather(*tasks), every task done without exception
gather_returns ==
    /\ cr_pc = "gather"
    /\ \A i \in DOMAIN cr_task : cr_task[i] = "done"
    /\ cr_pc' = "done"
    /\ UNCHANGED <<cr_sitemaps, cr_task, cr_files>>
    /\ UNCHANGED <<schedVars, storeVars, saveVars, sitemapVars>>

\* line 99, gather hands the first exception of a task to main, which
\* leaves with it; asyncio.run then cancels the tasks still waiting
gather_raises ==
    /\ cr_pc = "gather"
    /\ \E i \in DOMAIN cr_task : cr_task[i] = "raised"
    /\ cr_pc' = "raised"
    /\ cr_task' = [i \in DOMAIN cr_task |->
                     IF cr_task[i] = "pending" THEN "cancelled" ELSE cr_task[i]]
    /\ UNCHANGED <<cr_sitemaps, cr_files>>
    /\ UNCHANGED <<schedVars, storeVars, saveVars, sitemapVars>>

InitCrawlerSpec ==
    InitNoRun /\ InitStore /\ InitSave /\ InitSitemap /\ InitCrawl

NextCrawler ==
    \/ get_sitemaps
    \/ \E i \in DOMAIN cr_task : scrape_article_urls(i)
    \/ gather_returns
    \/ gather_raises

SpecCrawler == InitCrawlerSpec /\ [][NextCrawler]_vars

----------------------------------------------------------------------------
(* Properties *)

\* the elements of a sequence
Range(seq) == {seq[i] : i \in DOMAIN seq}

\* the files named after url_hash, over both directories
FilesOf(url_hash) ==
    {<<"complete", f>> : f \in {g \in complete : g[1] = JsonName(url_hash)}}
    \cup
    {<<"incomplete", f>> : f \in {g \in incomplete : g[1] = JsonName(url_hash)}}

\* the tasks that ran scrape_and_save to its end or out of it
Ended(t) == t.pc \in {"returned", "raised"}

\* C1: pure skip. With ignore_cache false, every step of a task that was
\* created while complete/{url_hash}.json or incomplete/{url_hash}.json
\* existed leaves both directories and the collection as they are, and the
\* task never gets past the two cache checks: no navigation, no write.
C1_PureSkip ==
    [][\A w \in Workers :
          (/\ worker'[w] # worker[w]
           /\ worker'[w].local_at_call
           /\ ~args.ignore_cache)
          => /\ UNCHANGED <<complete, incomplete, firestore>>
             /\ worker'[w].pc \in {"check_firestore", "check_local", "returned"}
             /\ worker'[w].path \in {"none", "skip_firestore", "skip_local"}
             /\ worker'[w].saved = "none"]_vars

\* C1 witness: a task returned by the local skip, the file being in the
\* incomplete directory only
C1_Witness ==
    \E w \in Workers :
        /\ worker[w].pc = "returned"
        /\ worker[w].path = "skip_local"
        /\ worker[w].local_at_call
        /\ ~args.ignore_cache
        /\ Exists(incomplete, JsonName(worker[w].article_data.url_hash))
        /\ ~Exists(complete, JsonName(worker[w].article_data.url_hash))

\* the four content fields of a record are all set
AllFour(data) ==
    /\ data.title # None
    /\ data.datetime # None
    /\ data.content # None
    /\ data.moods # None

\* C2: completeness routing. Whatever fields the object was built with,
\* save writes it under complete iff title, datetime, content and moods are
\* all non-null and under incomplete iff one of them is null, and the file
\* written holds the record.
C2_CompletenessRouting ==
    sv_pc = "saved" =>
        /\ sv_filename[1] = "complete" <=> AllFour(sv_data)
        /\ sv_filename[1] = "incomplete" <=> ~AllFour(sv_data)
        /\ sv_filename[2] = JsonName(sv_data.url_hash)
        /\ IF AllFour(sv_data)
           THEN <<sv_filename[2], sv_data>> \in complete
           ELSE <<sv_filename[2], sv_data>> \in incomplete

\* C2 witness: a record with only moods null was saved, under incomplete
C2_Witness ==
    /\ sv_pc = "saved"
    /\ sv_data.title # None /\ sv_data.datetime # None
    /\ sv_data.content # None /\ sv_data.moods = None
    /\ sv_filename[1] = "incomplete"

\* C3: in one run of _fetch_moods the two paths exclude each other. A task
\* whose wait for the see-moods element succeeded has not invoked
\* _emulate_voting, and a task that invoked _emulate_voting did so after
\* that wait timed out.
C3_MoodPathsExclusive ==
    \A w \in Workers :
        LET o == worker[w].outcome
            emulated == o["vote_div"] # "not_attempted"
                        \/ o["happy_div"] # "not_attempted"
        IN  /\ o["see_moods"] = "found" => ~emulated
            /\ emulated => o["see_moods"] = "TimeoutException"

\* C3 witness: the direct path read mood data and the task returned
C3_Witness ==
    \E w \in Workers :
        /\ worker[w].pc = "returned"
        /\ worker[w].outcome["see_moods"] = "found"
        /\ worker[w].outcome["requests"] = "found"
        /\ worker[w].article_data.moods # None

Attempted(t, stage) == t.outcome[stage] # "not_attempted"

C5_SessionReleased ==
    \A w \in Workers : Ended(worker[w]) => worker[w].driver = "quit"

\* C6 as claimed: no failure of a task reaches the script body, and when
\* the script has ended every URL of the list has had its task run to its
\* return.
C6_FailureIsolation ==
    /\ main_pc # "crashed"
    /\ main_pc = "done" => \A i \in DOMAIN status : status[i] = "returned"

\* C7 as claimed: when two concurrent tasks for one URL both passed the
\* dedup check and both returned, both wrote {url_hash}.json and exactly one
\* file of that hash exists over the two directories.
C7_RaceOneFile ==
    \A w1, w2 \in Workers :
        LET t1 == worker[w1]
            t2 == worker[w2]
        IN  (/\ w1 # w2
             /\ ~args.save_to_firestore /\ ~args.ignore_cache
             /\ t1.pc = "returned" /\ t2.pc = "returned"
             /\ t1.path = "scrape" /\ t2.path = "scrape"
             /\ t1.article_data.url = t2.article_data.url)
            => /\ t1.saved = "local" /\ t2.saved = "local"
               /\ Cardinality(FilesOf(t1.article_data.url_hash)) = 1

\* C8 as claimed: a task that passed the dedup check has handed its record
\* to the store (save or _add_to_firestore was called) when it ends, on
\* every exit path.
C8_RecordHandedOff ==
    \A w \in Workers :
        (Ended(worker[w]) /\ worker[w].path = "scrape")
            => worker[w].saved # "none"

\* the URLs the visited post-sitemaps returned, in order
RECURSIVE Flatten(_)
Flatten(pages) ==
    IF pages = <<>> THEN <<>> ELSE Head(pages) \o Flatten(Tail(pages))

\* C9: with max_url = N, scrape_sitemap ends with at most N URLs, and after
\* a visit that brought the count to N or more the loop is left: it is
\* never about to visit a further post-sitemap with N URLs collected.
C9_AtMostMaxUrl ==
    max_url # None =>
        /\ sm_pc \in {"after_loop", "done"} => Len(sm_article_urls) <= max_url[2]
        /\ (sm_pc = "loop" /\ sm_pages # <<>>) => Len(sm_article_urls) < max_url[2]

\* C9 witness: the count passed N on a post-sitemap that was not the last,
\* the list was cut to N and returned
C9_Witness ==
    /\ sm_pc = "done"
    /\ max_url # None
    /\ max_url[2] > 0
    /\ Len(sm_pages) < Len(post_sitemaps)
    /\ Len(Flatten(sm_pages)) > max_url[2]
    /\ Len(sm_article_urls) = max_url[2]

\* the scenario of C10: two post-sitemaps visited, A with 3 URLs, B with 2,
\* one URL in both, max_url = 4
C10_Scenario ==
    /\ sm_pc = "done"
    /\ max_url = PyInt(4)
    /\ Len(sm_pages) = 2
    /\ Cardinality(Range(sm_pages[1])) = 3 /\ Len(sm_pages[1]) = 3
    /\ Cardinality(Range(sm_pages[2])) = 2 /\ Len(sm_pages[2]) = 2
    /\ Cardinality(Range(sm_pages[1]) \cap Range(sm_pages[2])) = 1

Records ==
    {worker[w].article_data : w \in {v \in Workers : worker[v].pc # "idle"}}
    \cup {f[2] : f \in complete \cup incomplete}
    \cup {d[2] : d \in firestore}

\* C11: one storage key per URL. At every point, two records with the same
\* URL carry the same url_hash, every file is named after the url_hash
\* field of the record it holds, and the file a task saved is found under
\* the key its dedup check used.
C11_OneKeyPerUrl ==
    /\ \A r1, r2 \in Records : r1.url = r2.url => r1.url_hash = r2.url_hash
    /\ \A f \in complete \cup incomplete : f[1] = JsonName(f[2].url_hash)
    /\ \A w \in Workers :
          worker[w].saved = "local" =>
              Cardinality(FilesOf(worker[w].article_data.url_hash)) >= 1

\* C11 witness: a task's dedup check found, under its own key, the file an
\* earlier task of the same URL had saved
C11_Witness ==
    \E w \in Workers :
        /\ worker[w].path = "skip_local"
        /\ \E f \in complete \cup incomplete :
              /\ f[1] = JsonName(worker[w].article_data.url_hash)
              /\ f[2].url = worker[w].article_data.url
              /\ f[2].url_hash = worker[w].article_data.url_hash

\* C12: a fetch failure or an empty result on one child post-sitemap is
\* skipped: discovery is not ended by an error, and no other post-sitemap
\* is left uncollected because of it (asynchronous crawler)
C12_ChildFailureSkipped ==
    /\ cr_pc # "raised"
    /\ \A i \in DOMAIN cr_task : cr_task[i] # "cancelled"

\* C13: after a fetch failure on the root sitemap index, scrape_sitemap
\* ends with an empty result: no child sitemap fetched, no URL, and no
\* error raised to the caller
C13_RootFailureEmptyResult ==
    (sm_pc # "start" /\ post_sitemaps = <<>>) =>
        /\ sm_pc \in {"after_loop", "done"}
        /\ sm_pages = <<>>
        /\ sm_article_urls = <<>>

\* C14: in remote mode every document of the collection has title,
\* datetime, content and moods all non-null, no local file is written, and
\* the finally clause of a task whose record is incomplete leaves the
\* collection as it was
C14_RemoteOnlyComplete ==
    [][args.save_to_firestore =>
         /\ \A d \in firestore' : AllFour(d[2])
         /\ complete' = {} /\ incomplete' = {}
         /\ \A w \in Workers :
              (/\ worker[w].pc = "finally"
               /\ worker'[w].pc = "returned"
               /\ ~AllFour(worker[w].article_data)) => firestore' = firestore]_vars

C14_Witness ==
    /\ args.save_to_firestore
    /\ firestore # {}
    /\ \E w \in Workers :
         /\ worker[w].saved = "not_saved_incomplete"
         /\ ~AllFour(worker[w].article_data)
         /\ \A d \in firestore : d[2] # worker[w].article_data

\* C15: when no read yields mood data the moods field is null and never an
\* empty mapping: no record of a task, of a file or of a document has
\* moods = {}, so a vote API response with an empty mood_count gives an
\* incomplete record
C15_MoodsNullNotEmpty ==
    \A r \in Records : r.moods # Dict({})

\* the step of worker w is the finally clause of scrape_and_save
FinallyStep(w) ==
    worker[w].pc = "finally" /\ worker'[w].pc = "returned"

\* the emulate-vote fallback of the task timed out, at either click
VoteTimedOut(t) ==
    \/ t.outcome["vote_div"] = "TimeoutException"
    \/ t.outcome["happy_div"] = "TimeoutException"

\* the step of worker w is a click of _emulate_voting that times out
VoteTimeoutStep(w) ==
    /\ worker[w].pc \in {"vote_div", "happy_div"}
    /\ ~VoteTimedOut(worker[w])
    /\ VoteTimedOut(worker'[w])

\* C16 as stated: a timeout of either click of the emulate-vote fallback
\* leaves _fetch_moods as an error, the extraction ends with moods null,
\* the session is released and the record is persisted as incomplete (a
\* file of the incomplete directory holds it)
C16_VoteTimeoutPersisted ==
    [][\A w \in Workers :
         /\ VoteTimeoutStep(w) =>
              /\ worker'[w].pc = "finally"
              /\ worker'[w].article_data = worker[w].article_data
              /\ worker'[w].article_data.moods = None
         /\ (FinallyStep(w) /\ VoteTimedOut(worker[w])) =>
              /\ worker'[w].driver = "quit"
              /\ <<JsonName(worker[w].article_data.url_hash),
                   to_json(worker[w].article_data)>> \in incomplete']_vars

\* C16 amended: a timeout of either click of the emulate-vote fallback
\* leaves _fetch_moods as an error, the extraction ends with moods null and
\* the session is released; the record is written to the incomplete
\* directory in local mode, and in remote mode it is dropped: no document
\* and no file
C16_VoteTimeoutPartial ==
    [][\A w \in Workers :
         /\ VoteTimeoutStep(w) =>
              /\ worker'[w].pc = "finally"
              /\ worker'[w].article_data = worker[w].article_data
              /\ worker'[w].article_data.moods = None
         /\ (FinallyStep(w) /\ VoteTimedOut(worker[w])) =>
              /\ worker'[w].driver = "quit"
              /\ worker'[w].article_data.moods = None
              /\ IF args.save_to_firestore
                 THEN /\ firestore' = firestore
                      /\ complete' = complete /\ incomplete' = incomplete
                 ELSE /\ <<JsonName(worker[w].article_data.url_hash),
                           to_json(worker[w].article_data)>> \in incomplete'
                      /\ complete' = complete /\ firestore' = firestore]_vars

\* C16 witness: the second click timed out after title, datetime and content
\* were read; the session is quit and the incomplete directory holds the
\* record with moods null
C16_Witness ==
    \E w \in Workers :
        /\ worker[w].pc = "returned"
        /\ worker[w].outcome["vote_div"] = "found"
        /\ worker[w].outcome["happy_div"] = "TimeoutException"
        /\ worker[w].driver = "quit"
        /\ worker[w].saved = "local"
        /\ worker[w].article_data.content = Str("content")
        /\ worker[w].article_data.moods = None
        /\ <<JsonName(worker[w].article_data.url_hash),
             to_json(worker[w].article_data)>> \in incomplete

\* the step of worker w is a stage of the try block that fails
FailedStageStep(w) ==
    /\ worker[w].pc \in {"fetch_title", "fetch_datetime", "fetch_content",
                         "fetch_moods", "vote_div", "happy_div",
                         "fetch_mood_data"}
    /\ worker'[w].pc = "finally"
    /\ \E s \in Stages :
         /\ worker[w].outcome[s] = "not_attempted"
         /\ worker'[w].outcome[s] \in {"TimeoutException", "WebDriverException",
                                       "Exception"}

\* C17: a stage that fails leaves the fields of the record as the earlier
\* stages set them, and the finally clause writes the record as it is then:
\* in local mode the file of the URL holds it, and when the title wait
\* succeeded and the content wait timed out that file has the title text
\* and content null and is in the incomplete directory
C17_EarlierFieldsKept ==
    [][\A w \in Workers :
         /\ FailedStageStep(w) =>
              worker'[w].article_data = worker[w].article_data
         /\ (FinallyStep(w) /\ ~args.save_to_firestore) =>
              LET data == worker[w].article_data
                  file == <<JsonName(data.url_hash), to_json(data)>>
              IN  /\ worker'[w].article_data = data
                  /\ file \in complete' \cup incomplete'
                  /\ (/\ worker[w].outcome["title"] = "found"
                      /\ worker[w].outcome["content"] = "TimeoutException") =>
                        /\ data.title = Str("title")
                        /\ data.content = None
                        /\ file \in incomplete'
                        /\ complete' = complete]_vars

\* C17 witness: the title and the datetime were read, the content wait timed
\* out, and the incomplete directory holds the record with the title
C17_Witness ==
    \E w \in Workers :
        /\ worker[w].pc = "returned"
        /\ worker[w].outcome["title"] = "found"
        /\ worker[w].outcome["content"] = "TimeoutException"
        /\ worker[w].saved = "local"
        /\ \E f \in incomplete :
             /\ f[1] = JsonName(worker[w].article_data.url_hash)
             /\ f[2].title = Str("title")
             /\ f[2].datetime = Str("datetime")
             /\ f[2].content = None

\* C18: duplicate writes are idempotent in remote mode: the collection
\* never holds two documents with the same url_hash
C18_NoDuplicateDocs ==
    \A d1, d2 \in firestore : d1[2].url_hash = d2[2].url_hash => d1 = d2

\* C19: the dedup decision comes before a browser session: a task whose URL
\* is skipped because its result exists has no session created
C19_NoSessionForSkipped ==
    \A w \in Workers :
        worker[w].path \in {"skip_firestore", "skip_local"} =>
            worker[w].driver = "none"

\* C20: a run over a finite URL list eventually finishes all tasks: the
\* extraction of every URL of the list has ended
C20_AllTasksFinish ==
    <>(\A i \in DOMAIN status : status[i] \in {"returned", "raised"})

\* C21: at every point of an extraction the non-null fields of the record
\* form a prefix of title, datetime, content, moods; so a record with moods
\* non-null has the other three non-null and is classified complete. Holds
\* for the record of every task and for every record stored
C21_FieldsFormPrefix ==
    \A r \in Records :
        /\ r.datetime # None => r.title # None
        /\ r.content # None => r.datetime # None
        /\ r.moods # None => r.content # None
        /\ r.moods # None => (AllFour(r) /\ is_complete(r))

\* C21 witness: a task stopped by the content wait holds the proper prefix
\* title, datetime, while a stored record with moods non-null has all four
\* fields and is in the complete directory
C21_Witness ==
    /\ \E w \in Workers :
         /\ worker[w].pc \in {"finally", "returned"}
         /\ worker[w].outcome["content"] # "found"
         /\ worker[w].article_data.datetime # None
         /\ worker[w].article_data.content = None
    /\ \E f \in complete : f[2].moods # None /\ f[2].title # None

\* C22: after sequential scrape_and_save runs in local mode, whatever the
\* ignore_cache setting and the outcomes, each url_hash has a file in at
\* most one of the directories complete and incomplete
C22_OnePartitionPerHash ==
    (~args.use_multiprocessing /\ ~args.save_to_firestore) =>
        \A url \in Urls : Cardinality(FilesOf(sha256(url))) <= 1

============================================================================
